---- MODULE Spec2Model ----
(***************************************************************************)
(* A model of github.com/ochipin/request (request.go): the Request        *)
(* configuration object, its HeaderType / url.Values stores, the JSON      *)
(* importer and the Get / Submit pipelines down to Send.                   *)
(*                                                                         *)
(* Strings are sequences of one-character strings.  The part of a URL in   *)
(* front of its tail ("https://host/") is one token, so that a URL is      *)
(* <<base>> \o tail.  A percent-escape produced by url.QueryEscape is one  *)
(* token as well ("%3D").  Timeout and Insecure only parameterise the      *)
(* platform client and are visible to this model as the outcome of the     *)
(* exchange (ServerOutcomes).                                              *)
(***************************************************************************)
EXTENDS Naturals, Integers, Sequences, FiniteSets, Bags, TLC

VARIABLES URL, Username, Password, Proxy, values, header, last, sent, ret

vars == <<URL, Username, Password, Proxy, values, header, last, sent, ret>>

----------------------------------------------------------------------------
(* Bounds of the model                                                     *)

\* longest inline query (characters after the first '?') of an initial URL
MaxQuery == 2
\* Values().Add is offered while the store holds fewer pairs than this
MaxPairs == 1
\* most members of a JSON object handed to JSON()
MaxMembers == 1

----------------------------------------------------------------------------
(* Strings                                                                 *)

\* the characters a URL tail is made of
QChars == {"a", "=", "&", "?"}

\* byte value of a character (sort.Strings compares bytes)
Code(c) ==
  CASE c = "&" -> 38
    [] c = "=" -> 61
    [] c = "?" -> 63
    [] c = "a" -> 97
    [] c = "b" -> 98
    [] OTHER -> 0

StringsUpTo(S, n) == UNION {[1..k -> S] : k \in 0..n}

\* strings.Index(s, c), 1-based; 0 when c does not occur (Go: -1)
Index(s, c) ==
  IF \E i \in 1..Len(s) : s[i] = c
  THEN CHOOSE i \in 1..Len(s) : s[i] = c /\ \A j \in 1..(i - 1) : s[j] # c
  ELSE 0

\* s[:idx] of Go with idx the 0-based position of the character at Index
Before(s, i) == SubSeq(s, 1, i - 1)
After(s, i) == SubSeq(s, i + 1, Len(s))

\* s < t in byte-wise lexicographic order
RECURSIVE Less(_, _)
Less(s, t) ==
  IF t = <<>> THEN FALSE
  ELSE IF s = <<>> THEN TRUE
  ELSE IF Code(Head(s)) # Code(Head(t)) THEN Code(Head(s)) < Code(Head(t))
  ELSE Less(Tail(s), Tail(t))

\* sort.Strings over a set of keys
RECURSIVE SortedKeys(_)
SortedKeys(K) ==
  IF K = {} THEN <<>>
  ELSE LET m == CHOOSE k \in K : \A o \in K \ {k} : Less(k, o)
       IN <<m>> \o SortedKeys(K \ {m})

----------------------------------------------------------------------------
(* net/url as request.go uses it                                           *)

\* url.QueryEscape of one character
EscapeChar(c) ==
  CASE c = "=" -> "%3D"
    [] c = "&" -> "%26"
    [] c = "?" -> "%3F"
    [] OTHER -> c

UnescapeChar(c) ==
  CASE c = "%3D" -> "="
    [] c = "%26" -> "&"
    [] c = "%3F" -> "?"
    [] OTHER -> c

QueryEscape(s) == [i \in 1..Len(s) |-> EscapeChar(s[i])]
QueryUnescape(s) == [i \in 1..Len(s) |-> UnescapeChar(s[i])]

\* url.Values{}: a map from key to the list of its values
EmptyValues == <<>>

\* url.Values.Add: append to the key's list
AddValue(m, k, v) ==
  IF k \in DOMAIN m THEN [m EXCEPT ![k] = Append(@, v)]
  ELSE [x \in (DOMAIN m) \cup {k} |-> IF x = k THEN <<v>> ELSE m[x]]

\* url.ParseQuery: cut at '&', drop empty segments, cut each at its first '='
RECURSIVE ParseQueryInto(_, _)
ParseQueryInto(m, q) ==
  IF q = <<>> THEN m
  ELSE LET amp == Index(q, "&")
           seg == IF amp = 0 THEN q ELSE Before(q, amp)
           rest == IF amp = 0 THEN <<>> ELSE After(q, amp)
           eq == Index(seg, "=")
           k == QueryUnescape(IF eq = 0 THEN seg ELSE Before(seg, eq))
           v == QueryUnescape(IF eq = 0 THEN <<>> ELSE After(seg, eq))
       IN IF seg = <<>> THEN ParseQueryInto(m, rest)
          ELSE ParseQueryInto(AddValue(m, k, v), rest)

ParseQuery(q) == ParseQueryInto(EmptyValues, q)

\* url.Values.Encode: keys sorted, key=value joined by '&', both escaped
RECURSIVE EncodeKey(_, _)
EncodeKey(k, vs) ==
  IF vs = <<>> THEN <<>>
  ELSE QueryEscape(k) \o <<"=">> \o QueryEscape(Head(vs))
       \o (IF Tail(vs) = <<>> THEN <<>> ELSE <<"&">> \o EncodeKey(k, Tail(vs)))

RECURSIVE EncodeKeys(_, _)
EncodeKeys(m, ks) ==
  IF ks = <<>> THEN <<>>
  ELSE LET one == EncodeKey(Head(ks), m[Head(ks)])
           more == EncodeKeys(m, Tail(ks))
       IN IF one = <<>> THEN more
          ELSE IF more = <<>> THEN one
          ELSE one \o <<"&">> \o more

Encode(m) == EncodeKeys(m, SortedKeys(DOMAIN m))

----------------------------------------------------------------------------
(* Values of the program                                                   *)

\* what the environment can be: URL prefixes, credentials, proxies
GoodBase == "https://h/"
BadBase == "://h/"
Bases == {GoodBase, BadBase}
Usernames == {"", "username"}
Passwords == {"", "password"}
NoProxy == [URL |-> <<>>, Username |-> "", Password |-> ""]
ProxyConfigs ==
  { NoProxy,
    [URL |-> <<BadBase>>, Username |-> "", Password |-> ""],
    [URL |-> <<"http://proxy:8080/">>, Username |-> "puser", Password |-> "ppass"] }

\* header names and values callers use
ContentType == "Content-Type"
FormType == "application/x-www-form-urlencoded"
JSONTypes == {"application/json", "text/json", "text/x-json"}
HeaderNames == {ContentType}
HeaderPairs == {ContentType} \X JSONTypes

\* keys and values callers add with Values().Add
AddKeys == {<<"a">>}
AddVals == {<<>>, <<"a">>}

\* r.values: a *url.Values, nil until Values() is first called
NilValues == [nil |-> TRUE, m |-> EmptyValues]
\* r.header: a HeaderType map, nil until Header() is first called
NilHeader == [nil |-> TRUE, m |-> <<>>]

\* an io.Reader handed to http.NewRequest: nil, a form string or JSON bytes
NoData == [kind |-> "none", text |-> <<>>, obj |-> <<>>]
NoAuth == [set |-> FALSE, username |-> "", password |-> ""]
NoReq ==
  [ok |-> FALSE, method |-> "", base |-> "", rawQuery |-> <<>>, header |-> <<>>,
   auth |-> NoAuth, body |-> NoData, proxyAuth |-> ""]

\* *http.Response and error values
NilRes == [nil |-> TRUE, StatusCode |-> 0, Status |-> ""]
NilErr == [kind |-> "nil", Code |-> 0, Message |-> ""]
Err(kind) == [kind |-> kind, Code |-> 0, Message |-> ""]
NilBody == "<nil>"
NoRet == [body |-> NilBody, res |-> NilRes, err |-> NilErr]

----------------------------------------------------------------------------
(* The server and the network                                              *)

\* status codes a response can carry to client.Do's caller
StatusCodes == {200, 299, 300, 404}

StatusLine(code) ==
  CASE code = 200 -> "200 OK"
    [] code = 299 -> "299 "
    [] code = 300 -> "300 Multiple Choices"
    [] code = 404 -> "404 Not Found"
    [] OTHER -> ""

Payload(code) == IF code = 404 THEN "404 not found" ELSE "SUCCESS"

\* how one exchange ends: no response at all (network, TLS, timeout), a
\* response whose body cannot be read to its end, or a response read whole
NoOutcome == [kind |-> "none", code |-> 0]
ServerOutcomes ==
  {[kind |-> "transportFail", code |-> 0], [kind |-> "readFail", code |-> 200]}
    \cup {[kind |-> "response", code |-> c] : c \in StatusCodes}

----------------------------------------------------------------------------
(* HeaderType                                                              *)

\* header[key] = value
HeaderAdd(h, key, value) ==
  [x \in (DOMAIN h) \cup {key} |-> IF x = key THEN value ELSE h[x]]

\* delete(header, key) when present
HeaderDel(h, key) ==
  IF key \in DOMAIN h THEN [x \in (DOMAIN h) \ {key} |-> h[x]] ELSE h

HeaderGet(h, key) == IF key \in DOMAIN h THEN h[key] ELSE ""

\* header = make(HeaderType) assigns the method's own copy of the receiver:
\* the caller's map is what it was
HeaderClear(h) == h

----------------------------------------------------------------------------
(* Request: accessors                                                      *)

\* the struct as one record
Self ==
  [URL |-> URL, Username |-> Username, Password |-> Password, Proxy |-> Proxy,
   values |-> values, header |-> header]

\* r.Header(): make the map on first use
Header(r) == IF r.header.nil THEN [r EXCEPT !.header = [nil |-> FALSE, m |-> <<>>]] ELSE r

\* r.Values(): make the url.Values on first use
Values(r) ==
  IF r.values.nil THEN [r EXCEPT !.values = [nil |-> FALSE, m |-> EmptyValues]] ELSE r

\* r.Values().Add(k, v)
ValuesAdd(r, k, v) ==
  LET r1 == Values(r) IN [r1 EXCEPT !.values.m = AddValue(r1.values.m, k, v)]

----------------------------------------------------------------------------
(* Request: Request, Transport, Send                                       *)

\* url.Parse: fails on a URL that starts with ':' (missing protocol scheme);
\* otherwise RawQuery is what follows the first '?'
URLParse(u) ==
  LET idx == Index(u, "?")
  IN [err |-> (u # <<>> /\ Head(u) = BadBase),
      Path |-> IF idx = 0 THEN u ELSE Before(u, idx),
      RawQuery |-> IF idx = 0 THEN <<>> ELSE After(u, idx)]

\* the reader http.NewRequest keeps: a reader of length 0 becomes http.NoBody
NewRequestBody(data) ==
  IF data.kind = "form" /\ data.text = <<>> THEN NoData ELSE data

\* a faulty variant of the test below: || where the code has &&
BothSetOr(username, password) == username # "" \/ password # ""

\* the username != "" && password != "" test of Request
BothSet(username, password) == username # "" /\ password # ""

\* r.Request(method, username, password, data)
Request(r, method, username, password, data) ==
  LET u == URLParse(r.URL)
  IN IF u.err THEN [err |-> Err("url"), req |-> NoReq]
     ELSE [err |-> NilErr,
           req |-> [ok |-> TRUE,
                    method |-> method,
                    base |-> u.Path,
                    rawQuery |-> u.RawQuery,
                    header |-> r.header.m,
                    auth |-> IF BothSet(username, password)
                             THEN [set |-> TRUE, username |-> username,
                                   password |-> password]
                             ELSE NoAuth,
                    body |-> NewRequestBody(data),
                    proxyAuth |-> ""]]

\* r.Transport(req): the proxy of the transport, and the proxy credentials
\* it adds to req
Transport(r, req) ==
  IF r.Proxy.URL # <<>>
  THEN IF URLParse(r.Proxy.URL).err
       THEN [err |-> Err("proxy"), proxy |-> <<>>, req |-> req]
       ELSE [err |-> NilErr, proxy |-> r.Proxy.URL,
             req |-> IF r.Proxy.Username # "" /\ r.Proxy.Password # ""
                     THEN [req EXCEPT !.proxyAuth = "Basic"]
                     ELSE req]
  ELSE [err |-> NilErr, proxy |-> <<>>, req |-> req]

\* a faulty variant of the test below: > 200 where the code has >= 200
IsSuccessLow(code) == code > 200 /\ code <= 299

\* the status test of Send
IsSuccess(code) == code >= 200 /\ code <= 299

\* r.Send(req, transport) when the exchange ends as `outcome`
Send(r, req, outcome) ==
  IF outcome.kind = "transportFail"
  THEN [body |-> NilBody, res |-> NilRes, err |-> Err("transport")]
  ELSE IF outcome.kind = "readFail"
  THEN [body |-> NilBody, res |-> NilRes, err |-> Err("read")]
  ELSE LET res == [nil |-> FALSE, StatusCode |-> outcome.code,
                   Status |-> StatusLine(outcome.code)]
           buf == Payload(outcome.code)
       IN IF ~IsSuccess(res.StatusCode)
          THEN [body |-> buf, res |-> res,
                err |-> [kind |-> "ResponseStatus", Code |-> res.StatusCode,
                         Message |-> res.Status]]
          ELSE [body |-> buf, res |-> res, err |-> NilErr]

\* a verb's work up to the call of Send: the Request as the verb leaves it,
\* the request to send, or the error the verb returns instead
Stopped(r, err) == [r |-> r, req |-> NoReq, err |-> err]

\* the tail shared by Get and Submit: Transport, then on to Send
Dispatch(r, req) ==
  LET t == Transport(r, req)
  IN IF t.err # NilErr THEN Stopped(r, t.err)
     ELSE [r |-> r, req |-> t.req, err |-> NilErr]

\* the verb's return: the early error, or what Send makes of the exchange
Finish(p, outcome) ==
  IF p.err # NilErr
  THEN [r |-> p.r, sent |-> NoReq, outcome |-> NoOutcome,
        ret |-> [body |-> NilBody, res |-> NilRes, err |-> p.err]]
  ELSE [r |-> p.r, sent |-> p.req, outcome |-> outcome,
        ret |-> Send(p.r, p.req, outcome)]

\* the ways the exchange of a prepared verb can end
OutcomesOf(p) == IF p.err # NilErr THEN {NoOutcome} ELSE ServerOutcomes

----------------------------------------------------------------------------
(* Request: Get, Submit, JSON                                              *)

\* for k, v1 := range src { for _, v2 := range v1 { dst.Add(k, v2) } }
RECURSIVE AddEach(_, _, _)
AddEach(dst, k, vs) ==
  IF vs = <<>> THEN dst ELSE AddEach(AddValue(dst, k, Head(vs)), k, Tail(vs))

RECURSIVE AddAllKeys(_, _, _)
AddAllKeys(dst, src, ks) ==
  IF ks = <<>> THEN dst
  ELSE AddAllKeys(AddEach(dst, Head(ks), src[Head(ks)]), src, Tail(ks))

AddAll(dst, src) == AddAllKeys(dst, src, SortedKeys(DOMAIN src))

\* the same loop with r.Values() as destination: Values() is called once
\* per pair, so the store stays nil when there is no pair
MergeIntoValues(r, src) ==
  IF DOMAIN src = {} THEN r
  ELSE LET r1 == Values(r) IN [r1 EXCEPT !.values.m = AddAll(r1.values.m, src)]

\* a faulty variant of the cut below: strings.LastIndex for strings.Index
TruncateLast(u) ==
  LET S == {i \in 1..Len(u) : u[i] = "?"}
  IN IF S = {} THEN u ELSE Before(u, CHOOSE i \in S : \A j \in S : j <= i)

\* the cut r.URL = r.URL[:idx] at the first '?'
Truncate(u) == IF Index(u, "?") # 0 THEN Before(u, Index(u, "?")) ELSE u

\* a faulty variant of the block below: the key's list is assigned, as by
\* url.Values.Set, where the code appends with Add
GetQueryDedup(r) ==
  LET u == URLParse(r.URL)
      q == ParseQuery(u.RawQuery)
      r1 == Values(r)
  IN IF Index(r.URL, "?") # 0 /\ ~u.err /\ DOMAIN q # {}
     THEN [r1 EXCEPT !.values.m =
             [k \in (DOMAIN r1.values.m) \cup (DOMAIN q) |->
                IF k \in DOMAIN q THEN q[k] ELSE r1.values.m[k]]]
     ELSE r

\* the query block at the head of Get
GetQuery(r) ==
  LET u == URLParse(r.URL)
  IN IF Index(r.URL, "?") # 0 /\ ~u.err
     THEN MergeIntoValues(r, ParseQuery(u.RawQuery))
     ELSE r

\* r.Get() up to its call of Send
Get(r) ==
  LET r1 == [GetQuery(r) EXCEPT !.URL = Truncate(r.URL)]
      rq == Request(r1, "GET", r1.Username, r1.Password, NoData)
  IN IF rq.err # NilErr THEN Stopped(r1, rq.err)
     ELSE Dispatch(r1,
                   IF ~r1.values.nil
                   THEN [rq.req EXCEPT !.rawQuery = Encode(r1.values.m)]
                   ELSE rq.req)

\* json.Marshal(r.values): url.Values is a map[string][]string, so every
\* key is written with the array of its values
Marshal(m) == [k \in DOMAIN m |-> [t |-> "arr", s |-> <<>>, items |-> m[k]]]

\* the body Submit builds from r.values under the Content-Type
SubmitData(r) ==
  IF ~r.values.nil
  THEN IF HeaderGet(r.header.m, ContentType) \in JSONTypes
       THEN [kind |-> "json", text |-> <<>>, obj |-> Marshal(r.values.m)]
       ELSE [kind |-> "form", text |-> Encode(r.values.m), obj |-> <<>>]
  ELSE NoData

\* a faulty variant of the block below: the pairs are added to r.values, as
\* in Get, where the code adds them to a local url.Values
SubmitQueryMerged(r) ==
  LET u == URLParse(r.URL)
  IN IF Index(r.URL, "?") # 0 /\ ~u.err
     THEN Encode(AddAll(r.values.m, ParseQuery(u.RawQuery)))
     ELSE <<>>

\* the query block at the head of Submit: a local url.Values, encoded
SubmitQuery(r) ==
  LET u == URLParse(r.URL)
  IN IF Index(r.URL, "?") # 0 /\ ~u.err
     THEN Encode(AddAll(EmptyValues, ParseQuery(u.RawQuery)))
     ELSE <<>>

\* r.Submit(method) up to its call of Send
Submit(r, method) ==
  LET rawQuery == SubmitQuery(r)
      r1 == [r EXCEPT !.URL = Truncate(r.URL)]
      r2 == IF r1.header.nil \/ HeaderGet(Header(r1).header.m, ContentType) = ""
            THEN [Header(r1) EXCEPT !.header.m = HeaderAdd(@, ContentType, FormType)]
            ELSE r1
      rq == Request(r2, method, r2.Username, r2.Password, SubmitData(r2))
  IN IF rq.err # NilErr THEN Stopped(r2, rq.err)
     ELSE Dispatch(r2,
                   IF rawQuery # <<>>
                   THEN [rq.req EXCEPT !.rawQuery = rawQuery]
                   ELSE rq.req)

\* JSON documents handed to JSON(): text that is no JSON, a bare string,
\* null, or an object of up to MaxMembers members whose values are a
\* string, null or a number
MemberVals ==
  {[t |-> "str", s |-> <<"a">>], [t |-> "null", s |-> <<>>], [t |-> "num", s |-> <<>>]}
Members == [k : AddKeys, v : MemberVals]
NoDoc == [t |-> "none", members |-> <<>>]
JSONDocs ==
  {[t |-> x, members |-> <<>>] : x \in {"invalid", "str", "null"}}
    \cup {[t |-> "obj", members |-> ms] : ms \in StringsUpTo(Members, MaxMembers)}

\* json.Unmarshal(j, &values) with values a map[string]string: null leaves
\* the map alone, a null member is stored as the zero string, a member of
\* another type is a type error, a later member of the same key overwrites
RECURSIVE UnmarshalMembers(_, _)
UnmarshalMembers(m, ms) ==
  IF ms = <<>> THEN m
  ELSE LET k == Head(ms).k
           v == IF Head(ms).v.t = "str" THEN Head(ms).v.s ELSE <<>>
       IN UnmarshalMembers([x \in (DOMAIN m) \cup {k} |-> IF x = k THEN v ELSE m[x]],
                           Tail(ms))

Unmarshal(j) ==
  [err |-> \/ j.t \in {"invalid", "str"}
           \/ \E i \in 1..Len(j.members) : j.members[i].v.t \notin {"str", "null"},
   m |-> UnmarshalMembers(<<>>, j.members)]

\* r.JSON(j)
JSON(r, j) ==
  LET u == Unmarshal(j)
      r1 == MergeIntoValues(r, [k \in DOMAIN u.m |-> <<u.m[k]>>])
  IN IF u.err THEN [r |-> r, err |-> Err("json")]
     ELSE [r |-> [Header(r1) EXCEPT !.header.m = HeaderAdd(@, ContentType, "application/json")],
           err |-> NilErr]

----------------------------------------------------------------------------
(* The state machine: a Request value and the calls made on it            *)

\* the call made last and what is known of it
Call(op) == [op |-> op, doc |-> NoDoc, outcome |-> NoOutcome]

\* URLs a Request is built with: a base, then nothing or '?' and a query
Tails == {<<>>} \cup {<<"?">> \o q : q \in StringsUpTo(QChars, MaxQuery)}
FewTails == {<<>>, <<"?", "a">>}
URLs == {<<GoodBase>> \o t : t \in Tails} \cup {<<BadBase>> \o t : t \in FewTails}

\* the Request literals of the model: every URL without credentials or
\* proxy, and every credential and proxy setting on a few URLs
QueryConfigs ==
  [URL : URLs, Username : {""}, Password : {""}, Proxy : {NoProxy}]
AuthConfigs ==
  [URL : {<<GoodBase>> \o t : t \in FewTails},
   Username : Usernames, Password : Passwords, Proxy : ProxyConfigs]
Configs == QueryConfigs \cup AuthConfigs

PairCount(m) ==
  LET RECURSIVE Sum(_)
      Sum(K) == IF K = {} THEN 0
                ELSE LET k == CHOOSE x \in K : TRUE IN Len(m[k]) + Sum(K \ {k})
  IN Sum(DOMAIN m)

Init ==
  /\ \E c \in Configs :
       /\ URL = c.URL
       /\ Username = c.Username
       /\ Password = c.Password
       /\ Proxy = c.Proxy
  /\ values = NilValues
  /\ header = NilHeader
  /\ last = Call("new")
  /\ sent = NoReq
  /\ ret = NoRet

\* r.Values() alone
ValuesOp ==
  /\ values' = Values(Self).values
  /\ last' = Call("Values")
  /\ sent' = NoReq
  /\ ret' = NoRet
  /\ UNCHANGED <<URL, Username, Password, Proxy, header>>

\* r.Values().Add(k, v)
ValuesAddOp ==
  /\ PairCount(values.m) < MaxPairs
  /\ \E k \in AddKeys, v \in AddVals : values' = ValuesAdd(Self, k, v).values
  /\ last' = Call("Values.Add")
  /\ sent' = NoReq
  /\ ret' = NoRet
  /\ UNCHANGED <<URL, Username, Password, Proxy, header>>

\* r.Header().Add(k, v)
HeaderAddOp ==
  /\ \E p \in HeaderPairs :
       /\ header' = [nil |-> FALSE, m |-> HeaderAdd(Header(Self).header.m, p[1], p[2])]
       /\ last' = Call("Header.Add")
  /\ sent' = NoReq
  /\ ret' = NoRet
  /\ UNCHANGED <<URL, Username, Password, Proxy, values>>

\* r.Header().Del(k)
HeaderDelOp ==
  /\ \E k \in HeaderNames :
       /\ header' = [nil |-> FALSE, m |-> HeaderDel(Header(Self).header.m, k)]
       /\ last' = Call("Header.Del")
  /\ sent' = NoReq
  /\ ret' = NoRet
  /\ UNCHANGED <<URL, Username, Password, Proxy, values>>

\* r.Header().Get(k): the value read is ret.body
HeaderGetOp ==
  /\ \E k \in HeaderNames :
       /\ header' = Header(Self).header
       /\ last' = Call("Header.Get")
       /\ ret' = [NoRet EXCEPT !.body = HeaderGet(Header(Self).header.m, k)]
  /\ sent' = NoReq
  /\ UNCHANGED <<URL, Username, Password, Proxy, values>>

\* r.Header().Clear()
HeaderClearOp ==
  /\ header' = [nil |-> FALSE, m |-> HeaderClear(Header(Self).header.m)]
  /\ last' = Call("Header.Clear")
  /\ sent' = NoReq
  /\ ret' = NoRet
  /\ UNCHANGED <<URL, Username, Password, Proxy, values>>

\* r.JSON(j)
JSONOp ==
  /\ \E j \in JSONDocs :
       LET out == JSON(Self, j)
       IN /\ PairCount(values.m) + Len(j.members) <= MaxPairs
          /\ values' = out.r.values
          /\ header' = out.r.header
          /\ last' = [Call("JSON") EXCEPT !.doc = j]
          /\ ret' = [NoRet EXCEPT !.err = out.err]
  /\ sent' = NoReq
  /\ UNCHANGED <<URL, Username, Password, Proxy>>

\* the state after a verb call that returned `out`
Returned(op, out) ==
  /\ URL' = out.r.URL
  /\ values' = out.r.values
  /\ header' = out.r.header
  /\ last' = [Call(op) EXCEPT !.outcome = out.outcome]
  /\ sent' = out.sent
  /\ ret' = out.ret
  /\ UNCHANGED <<Username, Password, Proxy>>

GetOp ==
  LET p == Get(Self) IN \E o \in OutcomesOf(p) : Returned("Get", Finish(p, o))
PostOp ==
  LET p == Submit(Self, "POST") IN \E o \in OutcomesOf(p) : Returned("Post", Finish(p, o))

\* Put, Patch and Delete are Submit("PUT"), Submit("PATCH") and
\* Submit("DELETE"): Post with another method string
Verbs == {"Get", "Post"}
Submits == {"Post"}

Next ==
  \/ ValuesOp
  \/ ValuesAddOp
  \/ HeaderAddOp
  \/ HeaderDelOp
  \/ HeaderGetOp
  \/ HeaderClearOp
  \/ JSONOp
  \/ GetOp
  \/ PostOp

Spec == Init /\ [][Next]_vars

----------------------------------------------------------------------------
(* Properties                                                              *)

\* the key/value pairs of a url.Values as a multiset
BagOfValues(m) ==
  LET P == UNION {{<<k, m[k][i]>> : i \in 1..Len(m[k])} : k \in DOMAIN m}
  IN [p \in P |-> Cardinality({i \in 1..Len(m[p[1]]) : m[p[1]][i] = p[2]})]

\* the inline query of a URL: what follows its first '?'
InlineQuery(u) == After(u, Index(u, "?"))

\* the key/value pairs a request body carries, as a multiset
BodyPairs(b) ==
  IF b.kind = "form" THEN BagOfValues(ParseQuery(b.text))
  ELSE IF b.kind = "json"
  THEN BagOfValues([k \in DOMAIN b.obj |-> b.obj[k].items])
  ELSE EmptyBag

HasQuery(u) == \E i \in 1..Len(u) : u[i] = "?"

\* C1: when a response is obtained and its body read, the verb returns a nil
\* error exactly for a status code in 200..299; for any other code it returns
\* a ResponseStatus with that code and status line, with the body read and
\* the response.
C1_StatusClassification ==
  (last.op \in Verbs /\ last.outcome.kind = "response") =>
    LET code == last.outcome.code
    IN /\ (ret.err = NilErr) <=> (code \in 200..299)
       /\ ret.body = Payload(code)
       /\ ~ret.res.nil
       /\ ret.res.StatusCode = code
       /\ code \notin 200..299 =>
            ret.err = [kind |-> "ResponseStatus", Code |-> code,
                       Message |-> StatusLine(code)]

\* a Get answered 404: the error carries the code, the body is the payload
C1_Witness ==
  /\ last.op = "Get"
  /\ last.outcome = [kind |-> "response", code |-> 404]
  /\ ret.err.Code = 404
  /\ ret.body = "404 not found"

\* C2: the response a verb returns is nil only when no response was received
\* (URL or proxy parse failure, transport failure); once a response was
\* received, also when reading its body fails, the response returned is
\* non-nil.
C2_MetadataNilOnlyWithoutResponse ==
  last.op \in Verbs =>
    (ret.res.nil <=> last.outcome.kind \in {"none", "transportFail"})

C5_JSONBodyFlatStrings ==
  (/\ last.op \in Submits
   /\ sent.ok
   /\ HeaderGet(sent.header, ContentType) \in JSONTypes
   /\ PairCount(values.m) > 0) =>
    /\ sent.body.kind = "json"
    /\ DOMAIN sent.body.obj = DOMAIN values.m
    /\ \A k \in DOMAIN sent.body.obj : sent.body.obj[k].t = "str"

\* C6: a non-GET submit with an empty ValueStore sends no body, under every
\* Content-Type, whether the store was never touched or only accessed.
C6_EmptyStoreNoBody ==
  (last.op \in Submits /\ sent.ok /\ PairCount(values.m) = 0) =>
    sent.body = NoData

\* C7: after Clear() the HeaderStore is empty: Get of every name returns the
\* empty string.
C7_ClearEmpties ==
  last.op = "Header.Clear" =>
    \A n \in HeaderNames : HeaderGet(header.m, n) = ""

\* C8: a request carries basic-auth credentials exactly when Username and
\* Password are both non-empty, and then these two, for Get and Submit alike.
C8_AuthOnlyWhenBothSet ==
  (last.op \in Verbs /\ sent.ok) =>
    /\ sent.auth.set <=> (Username # "" /\ Password # "")
    /\ sent.auth.set =>
         (sent.auth.username = Username /\ sent.auth.password = Password)

\* a Post with only the user name set went out without credentials
C8_Witness ==
  /\ last.op = "Post"
  /\ sent.ok
  /\ Username # ""
  /\ Password = ""
  /\ ~sent.auth.set

\* a JSON document that is an object whose values are all strings
FlatStringObject(j) ==
  j.t = "obj" /\ \A i \in 1..Len(j.members) : j.members[i].v.t = "str"

\* C9: JSON() returns an error for every input that is not a flat JSON object
\* of strings (a bare string, null, an object with a null or numeric value);
\* for a flat object of strings it returns nil and sets the Content-Type to
\* application/json.
C9_JSONRejectsNonFlat ==
  last.op = "JSON" =>
    /\ (ret.err = NilErr) <=> FlatStringObject(last.doc)
    /\ FlatStringObject(last.doc) =>
         HeaderGet(header.m, ContentType) = "application/json"

\* C10: when a verb returns, with or without an error, URL is what stood in
\* front of its first '?'; on a URL without '?' a non-GET submit sends no
\* query and a Get sends the pairs of the ValueStore.
C10_URLCutAtFirstQuery ==
  [][last'.op \in Verbs =>
       /\ Len(URL') <= Len(URL)
       /\ URL' = SubSeq(URL, 1, Len(URL'))
       /\ ~HasQuery(URL')
       /\ Len(URL') < Len(URL) => URL[Len(URL') + 1] = "?"
       /\ (last'.op \in Submits /\ sent'.ok /\ ~HasQuery(URL)) =>
            sent'.rawQuery = <<>>
       /\ (last'.op = "Get" /\ sent'.ok /\ ~HasQuery(URL)) =>
            BagOfValues(ParseQuery(sent'.rawQuery)) = BagOfValues(values.m)]_vars

\* a Post after a Get that merged the key ? from the URL: the store holds
\* the key, the URL is cut, the Post sent no query
C10_Witness ==
  /\ last.op = "Post"
  /\ sent.ok
  /\ <<"?">> \in DOMAIN values.m
  /\ ~HasQuery(URL)
  /\ sent.rawQuery = <<>>

====
